---- MODULE Spec2Model ----
(***************************************************************************)
(* The AVL engine of visualizer.js (class TreeNode, class AVLTree) as a    *)
(* state machine.  A tree is a nested record; the absent child is Null.    *)
(* The JavaScript methods mutate node objects in place and return the new  *)
(* subtree root; here each method returns the updated subtree as a value.  *)
(* An event of a trace holds the node as it was when the event was pushed; *)
(* the object the event refers to is found again through its id (NodeById) *)
(* where its state at the time the call returns matters.                   *)
(***************************************************************************)
EXTENDS Integers, Sequences, FiniteSets, TLC

\* Keys offered to insert and delete are 1..MaxValue.
MaxValue == 4
\* A call that would take nodeIdCounter beyond MaxNodeId is not offered.
MaxNodeId == 5

VARIABLES
  root,          \* avl.root
  nodeIdCounter, \* the global id counter
  path,          \* the trace returned by the last insert / delete call
  op,            \* the last call: [type, value]
  preRoot,       \* avl.root when the last call started
  preCounter,    \* nodeIdCounter when the last call started
  unwound,       \* what _insert / _delete returned, before updateHeightsAndBalances
  calls,         \* the _rebalance applications of the last call, in order
  S,             \* the set of values a set-based reference holds
  found,         \* what the last call returned, when it was avl.find
  animQueue,     \* the enqueued steps not yet started
  playing,       \* the flag of enqueue / runQueue
  active,        \* the steps started and not yet settled, one per runQueue loop
  started,       \* the ids of the steps started so far, in order
  stepCounter,   \* how many steps were enqueued so far (a step's id)
  timeline,      \* the serialized trees of snapshot()
  timelineIndex, \* the index into timeline, counted from 0
  captured,      \* for each timeline entry, the tree it was serialized from
  animated,      \* the trace the flow of the last attach step animates
  deletedIds,    \* the ids of the nodes named in delete events so far
  navigated,     \* whether step-back or step-forward was used
  flowCount,     \* how many calls were made (insertFlow / deleteFlow; DeepSpec: insert / delete)
  navCount,      \* how many step-back / step-forward clicks were made
  lastCheck      \* what the last balance-check step knew and found

engineVars ==
  <<root, nodeIdCounter, path, op, preRoot, preCounter, unwound, calls, S, found>>

uiVars ==
  <<animQueue, playing, active, started, stepCounter, timeline, timelineIndex,
    captured, animated, deletedIds, navigated, flowCount, navCount, lastCheck>>

Values == 1..MaxValue

Null == [null |-> TRUE]

Max(a, b) == IF a > b THEN a ELSE b

Abs(a) == IF a < 0 THEN -a ELSE a

\* Variants of TreeNode: the height field starting at 0; the id taken before
\* the counter is incremented (nodeIdCounter++).
TreeNode_heightZero(id, value) ==
  [id |-> id, value |-> value, left |-> Null, right |-> Null,
   height |-> 0, balance |-> 0]

TreeNode_postIncrement(id, value) ==
  [id |-> id - 1, value |-> value, left |-> Null, right |-> Null,
   height |-> 1, balance |-> 0]

\* new TreeNode(value), id being the value ++nodeIdCounter took
TreeNode(id, value) ==
  [id |-> id, value |-> value, left |-> Null, right |-> Null,
   height |-> 1, balance |-> 0]

_height(node) == IF node = Null THEN 0 ELSE node.height

getBalance(node) ==
  IF node = Null THEN 0 ELSE _height(node.left) - _height(node.right)

\* Variants of _max: descending to the left; not descending at all.
RECURSIVE _max_asMin(_)
_max_asMin(node) ==
  IF node # Null /\ node.left # Null THEN _max_asMin(node.left) ELSE node

_max_first(node) == node

RECURSIVE _max(_)
_max(node) ==
  IF node # Null /\ node.right # Null THEN _max(node.right) ELSE node

\* Variant of _rightRotate: the balance of the new subtree root is not
\* recomputed.
_rightRotate_staleBalance(y) ==
  LET x  == y.left
      T2 == x.right
      y1 == [y EXCEPT !.left = T2]
      y2 == [y1 EXCEPT !.height = Max(_height(y1.left), _height(y1.right)) + 1]
      y3 == [y2 EXCEPT !.balance = getBalance(y2)]
      x1 == [x EXCEPT !.right = y3]
  IN  [x1 EXCEPT !.height = Max(_height(x1.left), _height(x1.right)) + 1]

_rightRotate(y) ==
  LET x  == y.left
      T2 == x.right
      y1 == [y EXCEPT !.left = T2]
      y2 == [y1 EXCEPT !.height = Max(_height(y1.left), _height(y1.right)) + 1]
      x1 == [x EXCEPT !.right = y2]
      x2 == [x1 EXCEPT !.height = Max(_height(x1.left), _height(x1.right)) + 1]
      y3 == [y2 EXCEPT !.balance = getBalance(y2)]
      x3 == [x2 EXCEPT !.right = y3]
  IN  [x3 EXCEPT !.balance = getBalance(x3)]

\* Variant of _leftRotate: the height of the old subtree root is not
\* recomputed.
_leftRotate_staleHeight(x) ==
  LET y  == x.right
      T2 == y.left
      x1 == [x EXCEPT !.right = T2]
      y1 == [y EXCEPT !.left = x1]
      y2 == [y1 EXCEPT !.height = Max(_height(y1.left), _height(y1.right)) + 1]
      x3 == [x1 EXCEPT !.balance = getBalance(x1)]
      y3 == [y2 EXCEPT !.left = x3]
  IN  [y3 EXCEPT !.balance = getBalance(y3)]

_leftRotate(x) ==
  LET y  == x.right
      T2 == y.left
      x1 == [x EXCEPT !.right = T2]
      x2 == [x1 EXCEPT !.height = Max(_height(x1.left), _height(x1.right)) + 1]
      y1 == [y EXCEPT !.left = x2]
      y2 == [y1 EXCEPT !.height = Max(_height(y1.left), _height(y1.right)) + 1]
      x3 == [x2 EXCEPT !.balance = getBalance(x2)]
      y3 == [y2 EXCEPT !.left = x3]
  IN  [y3 EXCEPT !.balance = getBalance(y3)]

\* Variants of _rebalance: rotating beyond limit instead of beyond 1; the
\* double rotations without their first rotation; the kinds LR and RL given
\* each other's name.
_rebalance_variant(node, p, limit, double, LR, RL) ==
  IF node = Null THEN [node |-> node, path |-> p]
  ELSE LET balance == node.balance IN
    IF balance > limit THEN
      IF getBalance(node.left) >= 0
      THEN [node |-> _rightRotate(node),
            path |-> Append(p, [type |-> "rotate", kind |-> "LL", pivot |-> node])]
      ELSE [node |-> _rightRotate(IF double
                                  THEN [node EXCEPT !.left = _leftRotate(node.left)]
                                  ELSE node),
            path |-> Append(p, [type |-> "rotate", kind |-> LR, pivot |-> node])]
    ELSE IF balance < -limit THEN
      IF getBalance(node.right) <= 0
      THEN [node |-> _leftRotate(node),
            path |-> Append(p, [type |-> "rotate", kind |-> "RR", pivot |-> node])]
      ELSE [node |-> _leftRotate(IF double
                                 THEN [node EXCEPT !.right = _rightRotate(node.right)]
                                 ELSE node),
            path |-> Append(p, [type |-> "rotate", kind |-> RL, pivot |-> node])]
    ELSE [node |-> node, path |-> p]

_rebalance_eager(node, p) == _rebalance_variant(node, p, 0, TRUE, "LR", "RL")

_rebalance_noDouble(node, p) == _rebalance_variant(node, p, 1, FALSE, "LR", "RL")

_rebalance_swappedKinds(node, p) == _rebalance_variant(node, p, 1, TRUE, "RL", "LR")

\* _rebalance(node, path): the new subtree root and the path with the
\* rotate event, if any, pushed.
_rebalance(node, p) ==
  IF node = Null THEN [node |-> node, path |-> p]
  ELSE LET balance == node.balance IN
    IF balance > 1 THEN
      IF getBalance(node.left) >= 0
      THEN [node |-> _rightRotate(node),
            path |-> Append(p, [type |-> "rotate", kind |-> "LL", pivot |-> node])]
      ELSE [node |-> _rightRotate([node EXCEPT !.left = _leftRotate(node.left)]),
            path |-> Append(p, [type |-> "rotate", kind |-> "LR", pivot |-> node])]
    ELSE IF balance < -1 THEN
      IF getBalance(node.right) <= 0
      THEN [node |-> _leftRotate(node),
            path |-> Append(p, [type |-> "rotate", kind |-> "RR", pivot |-> node])]
      ELSE [node |-> _leftRotate([node EXCEPT !.right = _rightRotate(node.right)]),
            path |-> Append(p, [type |-> "rotate", kind |-> "RL", pivot |-> node])]
    ELSE [node |-> node, path |-> p]

\* Variants of the shared tail: returning the node without _rebalance; pushing
\* a second visit event for the node on the way up.
Unwind_variant(node, r, rebalance, revisit) ==
  LET n1 == [node EXCEPT !.height = 1 + Max(_height(node.left), _height(node.right)),
                         !.balance = _height(node.left) - _height(node.right)]
      p0 == IF revisit THEN Append(r.path, [type |-> "visit", node |-> n1]) ELSE r.path
      rb == IF rebalance THEN _rebalance(n1, p0) ELSE [node |-> n1, path |-> p0]
  IN  [node  |-> rb.node,
       path  |-> rb.path,
       ctr   |-> r.ctr,
       calls |-> Append(r.calls,
                        [node   |-> n1,
                         result |-> rb.node,
                         events |-> SubSeq(rb.path, Len(p0) + 1, Len(rb.path))])]

Unwind_noRebalance(node, r) == Unwind_variant(node, r, FALSE, FALSE)

Unwind_revisit(node, r) == Unwind_variant(node, r, TRUE, TRUE)

\* The tail shared by _insert and _delete: "Update height and balance
\* factor", then return this._rebalance(node, path).  r is the result of the
\* recursive call below node; the application of _rebalance is logged.
Unwind(node, r) ==
  LET n1 == [node EXCEPT !.height = 1 + Max(_height(node.left), _height(node.right)),
                         !.balance = _height(node.left) - _height(node.right)]
      rb == _rebalance(n1, r.path)
  IN  [node  |-> rb.node,
       path  |-> rb.path,
       ctr   |-> r.ctr,
       calls |-> Append(r.calls,
                        [node   |-> n1,
                         result |-> rb.node,
                         events |-> SubSeq(rb.path, Len(r.path) + 1, Len(rb.path))])]

\* Variant of _insert: an equal value descends to the left (<= for <).
RECURSIVE _insert_dupLeft(_, _, _, _)
_insert_dupLeft(node, value, p, ctr) ==
  IF node = Null THEN
    LET newNode == TreeNode(ctr + 1, value) IN
      [node |-> newNode,
       path |-> Append(p, [type |-> "create", node |-> newNode]),
       ctr |-> ctr + 1, calls |-> <<>>]
  ELSE
    LET p1 == Append(p, [type |-> "visit", node |-> node]) IN
      IF value <= node.value THEN
        LET r == _insert_dupLeft(node.left, value, p1, ctr)
        IN  Unwind([node EXCEPT !.left = r.node], r)
      ELSE
        LET r == _insert_dupLeft(node.right, value, p1, ctr)
        IN  Unwind([node EXCEPT !.right = r.node], r)

RECURSIVE _insert(_, _, _, _)
_insert(node, value, p, ctr) ==
  IF node = Null THEN
    LET newNode == TreeNode(ctr + 1, value) IN
      [node |-> newNode,
       path |-> Append(p, [type |-> "create", node |-> newNode]),
       ctr |-> ctr + 1, calls |-> <<>>]
  ELSE
    LET p1 == Append(p, [type |-> "visit", node |-> node]) IN
      IF value < node.value THEN
        LET r == _insert(node.left, value, p1, ctr)
        IN  Unwind([node EXCEPT !.left = r.node], r)
      ELSE IF value > node.value THEN
        LET r == _insert(node.right, value, p1, ctr)
        IN  Unwind([node EXCEPT !.right = r.node], r)
      ELSE [node |-> node, path |-> p1, ctr |-> ctr, calls |-> <<>>]

\* Variants of _delete: the delete event pushed only once the target is
\* known to have two children; a target without left child replaced by its
\* (absent) left child.
RECURSIVE _delete_variant(_, _, _, _, _, _)
_delete_variant(node, value, p, ctr, lateEvent, dropChild) ==
  IF node = Null THEN [node |-> Null, path |-> p, ctr |-> ctr, calls |-> <<>>]
  ELSE
    LET p1 == Append(p, [type |-> "visit", node |-> node]) IN
      IF value < node.value THEN
        LET r == _delete_variant(node.left, value, p1, ctr, lateEvent, dropChild)
        IN  Unwind([node EXCEPT !.left = r.node], r)
      ELSE IF value > node.value THEN
        LET r == _delete_variant(node.right, value, p1, ctr, lateEvent, dropChild)
        IN  Unwind([node EXCEPT !.right = r.node], r)
      ELSE
        LET p2 == Append(p1, [type |-> "delete", node |-> node])
            pc == IF lateEvent THEN p1 ELSE p2
        IN
          IF node.left = Null THEN
            [node |-> IF dropChild THEN node.left ELSE node.right,
             path |-> pc, ctr |-> ctr, calls |-> <<>>]
          ELSE IF node.right = Null THEN
            [node |-> node.left, path |-> pc, ctr |-> ctr, calls |-> <<>>]
          ELSE
            LET predecessor == _max(node.left)
                newNode0 == [TreeNode(ctr + 1, predecessor.value)
                               EXCEPT !.left = node.left, !.right = node.right]
                r == _delete_variant(newNode0.left, predecessor.value, p2, ctr + 1,
                                     lateEvent, dropChild)
                newNode == [newNode0 EXCEPT !.left = r.node]
                p3 == Append(r.path,
                             [type |-> "replace", replaced |-> node, with |-> newNode])
            IN  Unwind(newNode, [r EXCEPT !.path = p3])

_delete_lateEvent(node, value, p, ctr) ==
  _delete_variant(node, value, p, ctr, TRUE, FALSE)

_delete_dropChild(node, value, p, ctr) ==
  _delete_variant(node, value, p, ctr, FALSE, TRUE)

RECURSIVE _delete(_, _, _, _)
_delete(node, value, p, ctr) ==
  IF node = Null THEN [node |-> Null, path |-> p, ctr |-> ctr, calls |-> <<>>]
  ELSE
    LET p1 == Append(p, [type |-> "visit", node |-> node]) IN
      IF value < node.value THEN
        LET r == _delete(node.left, value, p1, ctr)
        IN  Unwind([node EXCEPT !.left = r.node], r)
      ELSE IF value > node.value THEN
        LET r == _delete(node.right, value, p1, ctr)
        IN  Unwind([node EXCEPT !.right = r.node], r)
      ELSE
        LET p2 == Append(p1, [type |-> "delete", node |-> node]) IN
          IF node.left = Null THEN
            [node |-> node.right, path |-> p2, ctr |-> ctr, calls |-> <<>>]
          ELSE IF node.right = Null THEN
            [node |-> node.left, path |-> p2, ctr |-> ctr, calls |-> <<>>]
          ELSE
            LET predecessor == _max(node.left)
                newNode0 == [TreeNode(ctr + 1, predecessor.value)
                               EXCEPT !.left = node.left, !.right = node.right]
                r == _delete(newNode0.left, predecessor.value, p2, ctr + 1)
                newNode == [newNode0 EXCEPT !.left = r.node]
                p3 == Append(r.path,
                             [type |-> "replace", replaced |-> node, with |-> newNode])
            IN  Unwind(newNode, [r EXCEPT !.path = p3])

\* updateHeightsAndBalances(node): the subtree with every height and balance
\* recomputed bottom-up (the JavaScript returns the height, which is
\* _height of this result).
RECURSIVE updateHeightsAndBalances(_)
updateHeightsAndBalances(node) ==
  IF node = Null THEN Null
  ELSE LET l == updateHeightsAndBalances(node.left)
           r == updateHeightsAndBalances(node.right)
           leftHeight == _height(l)
           rightHeight == _height(r)
       IN  [node EXCEPT !.left = l, !.right = r,
                        !.height = 1 + Max(leftHeight, rightHeight),
                        !.balance = leftHeight - rightHeight]

RECURSIVE isBalanced(_)
isBalanced(node) ==
  IF node = Null THEN TRUE
  ELSE IF Abs(getBalance(node)) > 1 THEN FALSE
  ELSE isBalanced(node.left) /\ isBalanced(node.right)

\* Variant of find: the descent taking the other side.
RECURSIVE find_otherSide(_, _)
find_otherSide(current, value) ==
  IF current = Null THEN Null
  ELSE IF value = current.value THEN current
  ELSE find_otherSide(IF value < current.value THEN current.right ELSE current.left,
                      value)

RECURSIVE find(_, _)
find(current, value) ==
  IF current = Null THEN Null
  ELSE IF value = current.value THEN current
  ELSE find(IF value < current.value THEN current.left ELSE current.right, value)

RECURSIVE inOrderTraversal(_)
inOrderTraversal(node) ==
  IF node = Null THEN <<>>
  ELSE inOrderTraversal(node.left) \o <<node.value>> \o inOrderTraversal(node.right)

\* serialize(n) of snapshot(): id, value and children, nothing else.
RECURSIVE serialize(_)
serialize(n) ==
  IF n = Null THEN Null
  ELSE [id |-> n.id, value |-> n.value,
        left |-> serialize(n.left), right |-> serialize(n.right)]

----------------------------------------------------------------------------
Init ==
  /\ root = Null
  /\ nodeIdCounter = 0
  /\ path = <<>>
  /\ op = [type |-> "none", value |-> 0]
  /\ preRoot = Null
  /\ preCounter = 0
  /\ unwound = Null
  /\ calls = <<>>
  /\ S = {}
  /\ found = Null
  /\ animQueue = <<>>
  /\ playing = FALSE
  /\ active = <<>>
  /\ started = <<>>
  /\ stepCounter = 0
  /\ timeline = <<>>
  /\ timelineIndex = -1
  /\ captured = <<>>
  /\ animated = <<>>
  /\ deletedIds = {}
  /\ navigated = FALSE
  /\ flowCount = 0
  /\ navCount = 0
  /\ lastCheck = [flow |-> "none", rotations |-> 0, unbalanced |-> <<>>]

\* avl.insert(value), offered while it keeps nodeIdCounter within limit
InsertCall(value, limit) ==
  /\ LET r == _insert(root, value, <<>>, nodeIdCounter) IN
       /\ r.ctr <= limit
       /\ root' = updateHeightsAndBalances(r.node)
       /\ nodeIdCounter' = r.ctr
       /\ path' = r.path
       /\ unwound' = r.node
       /\ calls' = r.calls
  /\ op' = [type |-> "insert", value |-> value]
  /\ preRoot' = root
  /\ preCounter' = nodeIdCounter
  /\ S' = S \cup {value}
  /\ found' = Null
  /\ UNCHANGED uiVars

Insert(value) == InsertCall(value, MaxNodeId)

\* avl.delete(value), offered while it keeps nodeIdCounter within limit
DeleteCall(value, limit) ==
  /\ LET r == _delete(root, value, <<>>, nodeIdCounter) IN
       /\ r.ctr <= limit
       /\ root' = IF r.node # Null THEN updateHeightsAndBalances(r.node) ELSE r.node
       /\ nodeIdCounter' = r.ctr
       /\ path' = r.path
       /\ unwound' = r.node
       /\ calls' = r.calls
  /\ op' = [type |-> "delete", value |-> value]
  /\ preRoot' = root
  /\ preCounter' = nodeIdCounter
  /\ S' = S \ {value}
  /\ found' = Null
  /\ UNCHANGED uiVars

Delete(value) == DeleteCall(value, MaxNodeId)

\* avl.find(value): no assignment to the tree or the counter, no trace
Find(value) ==
  /\ found' = find(root, value)
  /\ op' = [type |-> "find", value |-> value]
  /\ path' = <<>>
  /\ calls' = <<>>
  /\ preRoot' = root
  /\ preCounter' = nodeIdCounter
  /\ unwound' = root
  /\ UNCHANGED <<root, nodeIdCounter, S>>
  /\ UNCHANGED uiVars

Next ==
  \/ \E value \in Values : Insert(value)
  \/ \E value \in Values : Delete(value)
  \/ \E value \in Values : Find(value)

vars == <<engineVars, uiVars>>

Spec == Init /\ [][Next]_vars

----------------------------------------------------------------------------
\* A tree built from the keys of the documented example, then deleted from:
\* inserts of new keys until the first delete, deletes from then on.
ScenarioKeys == {5, 10, 15, 20, 30}

\* The scenario's calls keep nodeIdCounter within MaxScenarioId.
MaxScenarioId == 6

ScenarioInsert(value) ==
  /\ op.type # "delete"
  /\ value \notin S
  /\ InsertCall(value, MaxScenarioId)

ScenarioDelete(value) == DeleteCall(value, MaxScenarioId)

ScenarioNext ==
  \/ \E value \in ScenarioKeys : ScenarioInsert(value)
  \/ \E value \in ScenarioKeys : ScenarioDelete(value)

ScenarioSpec == Init /\ [][ScenarioNext]_vars

----------------------------------------------------------------------------
\* Vocabulary of the properties.

\* The nodes reachable from node, each with its subtree.
RECURSIVE Nodes(_)
Nodes(node) ==
  IF node = Null THEN {}
  ELSE {node} \cup Nodes(node.left) \cup Nodes(node.right)

Ids(node) == {n.id : n \in Nodes(node)}

ValuesOf(node) == {n.value : n \in Nodes(node)}

\* The height counted from the structure, not read from the height fields.
RECURSIVE TrueHeight(_)
TrueHeight(node) ==
  IF node = Null THEN 0
  ELSE 1 + Max(TrueHeight(node.left), TrueHeight(node.right))

RECURSIVE SortedSeq(_)
SortedSeq(T) ==
  IF T = {} THEN <<>>
  ELSE LET m == CHOOSE x \in T : \A y \in T : x <= y
       IN  <<m>> \o SortedSeq(T \ {m})

\* The events of the last trace that have the given type.
EventsOf(type) == {i \in 1..Len(path) : path[i].type = type}

\* The node of the tree that carries the given id (Null when none does).
NodeById(tree, id) ==
  IF id \in Ids(tree) THEN CHOOSE n \in Nodes(tree) : n.id = id ELSE Null

\* The node of the tree that holds the given value (Null when none does).
NodeByValue(tree, value) ==
  IF value \in ValuesOf(tree) THEN CHOOSE n \in Nodes(tree) : n.value = value ELSE Null

----------------------------------------------------------------------------
\* C1: after any sequence of insert and delete calls every reachable node has
\* |height(left) - height(right)| <= 1 (isBalanced() is true), counted from
\* the stored heights and from the structure alike, and its stored height is
\* 1 + max(height(left), height(right)), an absent child counting 0.
C1_BalancedAndHeights ==
  /\ isBalanced(root)
  /\ \A n \in Nodes(root) :
       /\ n.height = 1 + Max(_height(n.left), _height(n.right))
       /\ n.height = TrueHeight(n)
       /\ Abs(TrueHeight(n.left) - TrueHeight(n.right)) <= 1

\* A delete that rotated and left three nodes.
C1_Witness ==
  /\ op.type = "delete"
  /\ EventsOf("rotate") # {}
  /\ Cardinality(Nodes(root)) = 3
  /\ isBalanced(root)

\* C2: after any sequence of insert and delete calls the tree is a binary
\* search tree: at every node, every value of the left subtree is strictly
\* smaller and every value of the right subtree strictly larger.
C2_SearchTree ==
  \A n \in Nodes(root) :
    /\ \A v \in ValuesOf(n.left) : v < n.value
    /\ \A v \in ValuesOf(n.right) : v > n.value

\* A two-child delete (one replace event) that left three nodes.
C2_Witness ==
  /\ op.type = "delete"
  /\ EventsOf("replace") # {}
  /\ Cardinality(Nodes(root)) = 3
  /\ \A n \in Nodes(root) :
       /\ \A v \in ValuesOf(n.left) : v < n.value
       /\ \A v \in ValuesOf(n.right) : v > n.value

\* C3: after any sequence of insert and delete calls the in-order traversal
\* is the ascending sequence of the set S, which insert(v) extends by v and
\* delete(v) reduces by v.
C3_InOrderIsSortedSet ==
  inOrderTraversal(root) = SortedSeq(S)

\* A two-child delete whose nested deletion or unwinding rotated.
C3_Witness ==
  /\ op.type = "delete"
  /\ EventsOf("replace") # {}
  /\ EventsOf("rotate") # {}
  /\ inOrderTraversal(root) = SortedSeq(S)
  /\ Len(inOrderTraversal(root)) >= 3

\* The last call was insert(v) with v in the tree / not in the tree, or
\* delete(v) with v in the tree / not in the tree.
InsertedPresent == op.type = "insert" /\ op.value \in ValuesOf(preRoot)

InsertedNew == op.type = "insert" /\ op.value \notin ValuesOf(preRoot)

DeletedPresent == op.type = "delete" /\ op.value \in ValuesOf(preRoot)

DeletedAbsent == op.type = "delete" /\ op.value \notin ValuesOf(preRoot)

\* The node the last call was aimed at, as it was before the call.
Target == NodeByValue(preRoot, op.value)

TwoChildren(n) == n # Null /\ n.left # Null /\ n.right # Null

Maximum(T) == CHOOSE x \in T : \A y \in T : y <= x

Minimum(T) == CHOOSE x \in T : \A y \in T : x <= y

\* C4: insert(v) with v present leaves shape, ids and values at every
\* position and the in-order sequence unchanged, allocates no node, and its
\* trace holds visit events only.
C4_DuplicateInsert ==
  InsertedPresent =>
    /\ serialize(root) = serialize(preRoot)
    /\ inOrderTraversal(root) = inOrderTraversal(preRoot)
    /\ nodeIdCounter = preCounter
    /\ \A i \in 1..Len(path) : path[i].type = "visit"

\* A duplicate insert that found its value below the root.
C4_Witness ==
  /\ InsertedPresent
  /\ Len(path) >= 2
  /\ path[Len(path)].node.value = op.value
  /\ serialize(root) = serialize(preRoot)

\* C5: delete(v) with v absent leaves the tree identical (shape, ids,
\* values, stored height and balance) and its trace holds visit events only.
C5_DeleteAbsent ==
  DeletedAbsent =>
    /\ root = preRoot
    /\ nodeIdCounter = preCounter
    /\ \A i \in 1..Len(path) : path[i].type = "visit"

\* A delete of an absent value that searched two levels of a tree.
C5_Witness ==
  /\ DeletedAbsent
  /\ Len(path) >= 2
  /\ root = preRoot

\* C6 as stated: delete(v) with v present yields exactly one delete event,
\* and it carries the node whose value is v.
C6_OneDeleteEvent ==
  DeletedPresent =>
    /\ Cardinality(EventsOf("delete")) = 1
    /\ \A i \in EventsOf("delete") : path[i].node.value = op.value

\* C6, amended: the first delete event carries the target; it is the only
\* one when the target has fewer than two children; with two children there
\* is exactly one more, pushed by the nested deletion, and it carries the
\* predecessor (the node of the largest value of the target's left subtree).
C6_DeleteEvents ==
  DeletedPresent =>
    LET D == EventsOf("delete") IN
      /\ D # {}
      /\ path[Minimum(D)].node.id = Target.id
      /\ path[Minimum(D)].node.value = op.value
      /\ IF TwoChildren(Target)
         THEN /\ Cardinality(D) = 2
              /\ path[Maximum(D)].node.value = Maximum(ValuesOf(Target.left))
              /\ path[Maximum(D)].node.id \in Ids(Target.left)
         ELSE Cardinality(D) = 1

\* A two-child delete whose predecessor is not the target's left child.
C6_Witness ==
  /\ DeletedPresent
  /\ TwoChildren(Target)
  /\ Target.left.right # Null
  /\ Cardinality(EventsOf("delete")) = 2

\* The ids of the nodes a binary search for value examines, root first.
RECURSIVE SearchPath(_, _)
SearchPath(node, value) ==
  IF node = Null THEN <<>>
  ELSE IF value = node.value THEN <<node.id>>
  ELSE <<node.id>> \o SearchPath(IF value < node.value THEN node.left ELSE node.right,
                                 value)

IsLeafOfHeightOne(n) ==
  n # Null /\ n.left = Null /\ n.right = Null /\ n.height = 1

\* The shape of the trace of insert(v), v new: a visit per node of the
\* search path, in order, one create event for a node of value v, then
\* rotate events only.
InsertTraceShape ==
  LET sp == SearchPath(preRoot, op.value)
      k  == Len(sp)
  IN  /\ Len(path) >= k + 1
      /\ \A i \in 1..k : path[i].type = "visit" /\ path[i].node.id = sp[i]
      /\ path[k + 1].type = "create"
      /\ path[k + 1].node.value = op.value
      /\ \A i \in (k + 2)..Len(path) : path[i].type = "rotate"

\* The node object of the create event as it is when insert returns.
CreatedNow ==
  LET C == EventsOf("create")
  IN  IF C = {} THEN Null ELSE NodeById(root, path[Minimum(C)].node.id)

\* C7 as stated, read on the returned trace: the node of the create event is
\* the live node object, so "is a leaf with height 1" is read when insert
\* returns.
C7_CreatedIsLeafOnReturn ==
  InsertedNew => InsertTraceShape /\ IsLeafOfHeightOne(CreatedNow)

\* C7, amended: the shape of the trace is as stated; the node of the create
\* event is a leaf with height 1 when the event is pushed, and when insert
\* returns it still is one unless an LR or RL rotation followed, which may
\* have made that node the root of the rotated subtree, with height 2 and
\* the former parent and grandparent as its children.
C7_InsertTrace ==
  InsertedNew =>
    /\ InsertTraceShape
    /\ IsLeafOfHeightOne(path[Minimum(EventsOf("create"))].node)
    /\ CreatedNow # Null
    /\ CreatedNow.value = op.value
    /\ \/ IsLeafOfHeightOne(CreatedNow)
       \/ /\ \E i \in EventsOf("rotate") : path[i].kind \in {"LR", "RL"}
          /\ CreatedNow.height = 2
          /\ TwoChildren(CreatedNow)

\* An insert of a new value below the root that rotated.
C7_Witness ==
  /\ InsertedNew
  /\ Len(SearchPath(preRoot, op.value)) >= 2
  /\ EventsOf("rotate") # {}
  /\ InsertTraceShape

\* C8: a two-child delete yields exactly one replace event; `replaced` is
\* the node that held v; `with` has an id above every id assigned before the
\* call and the largest value of the target's left subtree; every visit
\* event precedes the replace event; afterwards `with` is reachable from the
\* root and `replaced` is not.  Any other delete yields no replace event.
C8_ReplaceEvent ==
  op.type = "delete" =>
    LET R == EventsOf("replace") IN
      IF DeletedPresent /\ TwoChildren(Target)
      THEN /\ Cardinality(R) = 1
           /\ \A i \in R :
                /\ path[i].replaced.id = Target.id
                /\ path[i].replaced.value = op.value
                /\ path[i].with.id > preCounter
                /\ path[i].with.id \notin Ids(preRoot)
                /\ path[i].with.value = Maximum(ValuesOf(Target.left))
                /\ \A j \in EventsOf("visit") : j < i
                /\ path[i].with.id \in Ids(root)
                /\ NodeById(root, path[i].with.id).value = path[i].with.value
                /\ path[i].replaced.id \notin Ids(root)
      ELSE R = {}

\* A two-child delete whose predecessor lies two levels below the target.
C8_Witness ==
  /\ DeletedPresent
  /\ TwoChildren(Target)
  /\ Target.left.right # Null
  /\ EventsOf("replace") # {}

\* C9: a delete whose target has at most one child allocates no node, the
\* ids reachable afterwards are those reachable before minus the target's,
\* and every surviving value keeps its id.
C9_DeleteInPlace ==
  (DeletedPresent /\ ~TwoChildren(Target)) =>
    /\ nodeIdCounter = preCounter
    /\ Ids(root) = Ids(preRoot) \ {Target.id}
    /\ \A n \in Nodes(root) : NodeByValue(preRoot, n.value).id = n.id

\* A delete of a node with one child or none that made the tree rotate.
C9_Witness ==
  /\ DeletedPresent
  /\ ~TwoChildren(Target)
  /\ EventsOf("rotate") # {}
  /\ Cardinality(Ids(root)) = 3

\* The rotate events of the last trace, in order.
RotateEvents == SelectSeq(path, LAMBDA e : e.type = "rotate")

RECURSIVE Concat(_)
Concat(ss) == IF ss = <<>> THEN <<>> ELSE Head(ss) \o Concat(Tail(ss))

\* C10: every application of _rebalance during insert or delete is decided
\* by the thresholds: balance > 1 with balance(left) >= 0 gives one rotate
\* event LL, with balance(left) < 0 LR; balance < -1 with balance(right) <= 0
\* gives RR, with balance(right) > 0 RL; balance in {-1,0,1} returns the node
\* unchanged and pushes nothing.  The pivot is the unbalanced node that was
\* the subtree root; the rotate events of the trace are exactly these.
C10_Thresholds ==
  /\ \A c \in 1..Len(calls) :
       LET n  == calls[c].node
           b  == n.balance
           ev == calls[c].events
           kind == IF b > 1 THEN (IF getBalance(n.left) >= 0 THEN "LL" ELSE "LR")
                   ELSE (IF getBalance(n.right) <= 0 THEN "RR" ELSE "RL")
       IN  /\ b = TrueHeight(n.left) - TrueHeight(n.right)
           /\ IF b \in {-1, 0, 1}
              THEN ev = <<>> /\ calls[c].result = n
              ELSE /\ Len(ev) = 1
                   /\ ev[1].type = "rotate"
                   /\ ev[1].kind = kind
                   /\ ev[1].pivot = n
                   /\ calls[c].result.id # n.id
                   /\ n.id \in Ids(calls[c].result)
  /\ RotateEvents = Concat([c \in 1..Len(calls) |-> calls[c].events])

\* A call that applied _rebalance to a balanced node, then to a node of
\* balance beyond the threshold with an inner-heavy child (a double rotation).
C10_Witness ==
  /\ \E c \in 1..Len(calls) : calls[c].events = <<>>
  /\ \E c \in 1..Len(calls) :
       /\ calls[c].events # <<>>
       /\ calls[c].events[1].kind \in {"LR", "RL"}
       /\ Abs(calls[c].node.balance) = 2

\* The values of the last trace's rotate events' kinds and pivots.
RotateKinds == [i \in 1..Len(RotateEvents) |-> RotateEvents[i].kind]

RotatePivots == [i \in 1..Len(RotateEvents) |-> RotateEvents[i].pivot.value]

\* The value that was inserted k-th into a tree built by inserts alone (ids
\* are handed out in the order of the inserts).
InsertedAs(tree, k) == NodeById(tree, k).value

\* The tree holds n nodes and only n ids were ever handed out: it was built
\* from the empty tree by n inserts of distinct values (and calls that
\* changed nothing).
BuiltByInserts(tree, ctr, n) ==
  Cardinality(Nodes(tree)) = n /\ ctr = n /\ Ids(tree) = 1..n

C14_Find ==
  op.type = "find" =>
    /\ IF op.value \in S
       THEN found # Null /\ found.value = op.value /\ found \in Nodes(root)
       ELSE found = Null
    /\ root = preRoot
    /\ nodeIdCounter = preCounter
    /\ path = <<>>

\* A find that returned a node two levels below the root.
C14_Witness ==
  /\ op.type = "find"
  /\ found # Null
  /\ Len(SearchPath(root, op.value)) = 3

\* C15: the number of visit events of an insert or delete trace never
\* exceeds the height the tree had before the call, the visits of the nested
\* predecessor deletion included.  (Each call is evaluated to its end on
\* every reachable tree.)
C15_VisitsWithinHeight ==
  op.type \in {"insert", "delete"} =>
    Cardinality(EventsOf("visit")) <= TrueHeight(preRoot)

\* A two-child delete whose visits, nested ones included, number the height.
C15_Witness ==
  /\ DeletedPresent
  /\ TwoChildren(Target)
  /\ Target.id = preRoot.id
  /\ Cardinality(EventsOf("visit")) = TrueHeight(preRoot)
  /\ TrueHeight(preRoot) = 3

\* The tree the last call started from was built by inserting the keys of
\* order, in that order, into the empty tree.
PreBuiltFrom(order) ==
  /\ BuiltByInserts(preRoot, preCounter, Len(order))
  /\ \A k \in 1..Len(order) : InsertedAs(preRoot, k) = order[k]

\* C12: after inserting 20, 10, 30, 5, 15 into the empty tree, delete(20)
\* returns a trace with exactly one replace event, whose `with` node carries
\* 15, and leaves a balanced tree with in-order sequence 5, 10, 15, 30.
C12_DeleteTwenty ==
  (op = [type |-> "delete", value |-> 20] /\ PreBuiltFrom(<<20, 10, 30, 5, 15>>)) =>
    /\ Cardinality(EventsOf("replace")) = 1
    /\ \A i \in EventsOf("replace") :
         path[i].with.value = 15 /\ path[i].replaced.value = 20
    /\ isBalanced(root)
    /\ \A n \in Nodes(root) : Abs(TrueHeight(n.left) - TrueHeight(n.right)) <= 1
    /\ inOrderTraversal(root) = <<5, 10, 15, 30>>

\* The state right after that delete(20).
C12_Witness ==
  /\ op = [type |-> "delete", value |-> 20]
  /\ PreBuiltFrom(<<20, 10, 30, 5, 15>>)
  /\ root.value = 15
  /\ EventsOf("replace") # {}


\* ---------------------------------------------------------------------------
\* The page: animation queue, insertFlow / deleteFlow, timeline of snapshots.
\* A click handler runs to completion; a step started by runQueue stays
\* started until its timers fire, and the code after `await fn()` runs in the
\* same turn as the settling of fn.
\* ---------------------------------------------------------------------------

MaxUIValue == 3

MaxFlows == 2

MaxNavs == 2

UIValues == 1..MaxUIValue

\* Bind(e, F) is F(e), with e evaluated once however often F uses it.
Bind(e, F(_)) == CHOOSE r \in {F(x) : x \in {e}} : TRUE

\* The globals of the page as one record.
Cur ==
  [root |-> root, ctr |-> nodeIdCounter, path |-> path, op |-> op,
   preRoot |-> preRoot, preCounter |-> preCounter, unwound |-> unwound,
   calls |-> calls, animQueue |-> animQueue, playing |-> playing,
   active |-> active, started |-> started, stepCounter |-> stepCounter,
   timeline |-> timeline, timelineIndex |-> timelineIndex,
   captured |-> captured, animated |-> animated, deletedIds |-> deletedIds,
   lastCheck |-> lastCheck]

Install(u) ==
  /\ root' = u.root
  /\ nodeIdCounter' = u.ctr
  /\ path' = u.path
  /\ op' = u.op
  /\ preRoot' = u.preRoot
  /\ preCounter' = u.preCounter
  /\ unwound' = u.unwound
  /\ calls' = u.calls
  /\ animQueue' = u.animQueue
  /\ playing' = u.playing
  /\ active' = u.active
  /\ started' = u.started
  /\ stepCounter' = u.stepCounter
  /\ timeline' = u.timeline
  /\ timelineIndex' = u.timelineIndex
  /\ captured' = u.captured
  /\ animated' = u.animated
  /\ deletedIds' = u.deletedIds
  /\ lastCheck' = u.lastCheck

insert_staleCounter(u, value) ==
  Bind(_insert(u.root, value, <<>>, u.ctr), LAMBDA r :
  [u EXCEPT !.root = updateHeightsAndBalances(r.node),
            !.path = r.path,
            !.unwound = r.node,
            !.calls = r.calls,
            !.op = [type |-> "insert", value |-> value],
            !.preRoot = u.root,
            !.preCounter = u.ctr])

\* avl.insert(value) on the live tree.
insert(u, value) ==
  Bind(_insert(u.root, value, <<>>, u.ctr), LAMBDA r :
  [u EXCEPT !.root = updateHeightsAndBalances(r.node),
            !.ctr = r.ctr,
            !.path = r.path,
            !.unwound = r.node,
            !.calls = r.calls,
            !.op = [type |-> "insert", value |-> value],
            !.preRoot = u.root,
            !.preCounter = u.ctr])

\* avl.delete(value) on the live tree.
delete(u, value) ==
  Bind(_delete(u.root, value, <<>>, u.ctr), LAMBDA r :
  [u EXCEPT !.root = IF r.node # Null THEN updateHeightsAndBalances(r.node) ELSE r.node,
            !.ctr = r.ctr,
            !.path = r.path,
            !.unwound = r.node,
            !.calls = r.calls,
            !.op = [type |-> "delete", value |-> value],
            !.preRoot = u.root,
            !.preCounter = u.ctr,
            !.deletedIds = @ \cup {r.path[i].node.id :
                                     i \in {j \in 1..Len(r.path) : r.path[j].type = "delete"}}])

RECURSIVE findUnbalancedNodes(_)
findUnbalancedNodes(node) ==
  IF node = Null THEN <<>>
  ELSE (IF Abs(node.balance) > 1 THEN <<node>> ELSE <<>>)
       \o findUnbalancedNodes(node.left) \o findUnbalancedNodes(node.right)

\* What a trace shows: per event its type, the value of its node or pivot,
\* the rotation kind, and the id of its node or pivot.
TraceOf(p) ==
  [i \in 1..Len(p) |->
     IF p[i].type = "rotate"
     THEN [type |-> "rotate", kind |-> p[i].kind, value |-> p[i].pivot.value,
           id |-> p[i].pivot.id]
     ELSE [type |-> p[i].type, kind |-> "", value |-> p[i].node.value,
           id |-> p[i].node.id]]

\* Variant of snapshot: the push without the slice before it.
snapshot_noSlice(u) ==
  [u EXCEPT !.timeline = Append(@, serialize(u.root)),
            !.timelineIndex = Len(u.timeline),
            !.captured = Append(@, u.root)]

snapshot(u) ==
  Bind(SubSeq(u.timeline, 1, u.timelineIndex + 1), LAMBDA kept :
  [u EXCEPT !.timeline = Append(kept, serialize(u.root)),
            !.timelineIndex = Len(kept),
            !.captured = Append(SubSeq(u.captured, 1, u.timelineIndex + 1), u.root)])

RECURSIVE build_freshIds(_, _)
build_freshIds(obj, ctr) ==
  IF obj = Null THEN [node |-> Null, ctr |-> ctr]
  ELSE LET n == TreeNode(ctr + 1, obj.value)
           l == build_freshIds(obj.left, ctr + 1)
           r == build_freshIds(obj.right, l.ctr)
       IN [node |-> [n EXCEPT !.left = l.node, !.right = r.node], ctr |-> r.ctr]

RECURSIVE build(_, _)
build(obj, ctr) ==
  IF obj = Null THEN [node |-> Null, ctr |-> ctr]
  ELSE LET n == TreeNode(ctr + 1, obj.value)
           l == build(obj.left, ctr + 1)
           r == build(obj.right, l.ctr)
       IN [node |-> [n EXCEPT !.id = obj.id, !.left = l.node, !.right = r.node],
           ctr |-> r.ctr]

renderSnapshot(u, index) ==
  Bind(build(u.timeline[index + 1], u.ctr), LAMBDA b :
  [u EXCEPT !.root = updateHeightsAndBalances(b.node), !.ctr = b.ctr,
            !.op = [type |-> "render", value |-> index]])

RECURSIVE cloneTree(_, _)
cloneTree(node, ctr) ==
  IF node = Null THEN [node |-> Null, ctr |-> ctr]
  ELSE LET n == TreeNode(ctr + 1, node.value)
           l == cloneTree(node.left, ctr + 1)
           r == cloneTree(node.right, l.ctr)
       IN [node |-> [n EXCEPT !.id = node.id, !.left = l.node, !.right = r.node,
                              !.height = node.height, !.balance = node.balance],
           ctr |-> r.ctr]

\* The synchronous part of a queued function, up to its first await.
StepStart(u, fn) ==
  IF fn.flow = "insert" /\ fn.kind = "attach"
  THEN [insert(u, fn.value) EXCEPT !.animated = fn.trace]
  ELSE IF fn.kind = "check"
  THEN [u EXCEPT !.lastCheck = [flow |-> fn.flow, rotations |-> Len(fn.trace),
                                unbalanced |-> findUnbalancedNodes(u.root)]]
  ELSE u

\* The part of a queued function that runs after its last await.
StepEnd(u, fn) ==
  IF fn.kind = "finalize" THEN snapshot(u) ELSE u

\* A queued function that awaits no timer: deleteFlow's balance check when
\* nothing is unbalanced.
SettlesAtOnce(u, fn) ==
  fn.flow = "delete" /\ fn.kind = "check" /\ findUnbalancedNodes(u.root) = <<>>

RECURSIVE runLoop_noReset(_)
runLoop_noReset(u) ==
  IF u.animQueue = <<>> THEN u
  ELSE LET fn == Head(u.animQueue) IN
       Bind(StepStart([u EXCEPT !.animQueue = Tail(@), !.started = Append(@, fn.id)], fn),
            LAMBDA u2 : IF SettlesAtOnce(u2, fn) THEN runLoop_noReset(u2)
                        ELSE [u2 EXCEPT !.active = Append(@, fn)])

\* The while loop of runQueue, from its test to its next await on a timer.
RECURSIVE runLoop(_)
runLoop(u) ==
  IF u.animQueue = <<>> THEN [u EXCEPT !.playing = FALSE]
  ELSE LET fn == Head(u.animQueue) IN
       Bind(StepStart([u EXCEPT !.animQueue = Tail(@), !.started = Append(@, fn.id)], fn),
            LAMBDA u2 : IF SettlesAtOnce(u2, fn) THEN runLoop(u2)
                        ELSE [u2 EXCEPT !.active = Append(@, fn)])

runQueue(u) == runLoop([u EXCEPT !.playing = TRUE])

\* animQueue.push(fn); the step's id is its position among all enqueue calls.
push(u, fn) ==
  [u EXCEPT !.animQueue = Append(@, [fn EXCEPT !.id = u.stepCounter + 1]),
            !.stepCounter = @ + 1]

enqueue_alwaysRun(u, fn) ==
  Bind(u, LAMBDA u0 : Bind(push(u0, fn), LAMBDA u1 : runQueue(u1)))

enqueue(u, fn) ==
  Bind(u, LAMBDA u0 : Bind(push(u0, fn), LAMBDA u1 :
    IF ~u1.playing THEN runQueue(u1) ELSE u1))

\* runQueue resumes when the function it awaits settles (ok) or throws.
Resume(u, i, ok) ==
  LET fn == u.active[i] IN
  Bind([u EXCEPT !.active = SubSeq(@, 1, i - 1) \o SubSeq(@, i + 1, Len(@))], LAMBDA u1 :
    Bind(IF ok THEN StepEnd(u1, fn) ELSE u1, LAMBDA u2 : runLoop(u2)))

Step(flow, kind, value, trace) ==
  [id |-> 0, flow |-> flow, kind |-> kind, value |-> value, trace |-> trace]

\* The rotate events of a trace.
RotateTrace(p) ==
  TraceOf(SelectSeq(p, LAMBDA e : e.type = "rotate"))

\* One rotation step per rotate event of the trace.
RotateSteps(p, flow, value) ==
  [i \in 1..Cardinality({j \in 1..Len(p) : p[j].type = "rotate"}) |->
     Step(flow, "rotate", value, <<>>)]

\* The enqueue calls of a flow, one after the other.
RECURSIVE enqueueAll(_, _)
enqueueAll(u, fns) ==
  IF fns = <<>> THEN u ELSE enqueueAll(enqueue(u, Head(fns)), Tail(fns))

insertFlow(u, value) ==
  Bind(cloneTree(u.root, u.ctr), LAMBDA c :
  Bind(_insert(c.node, value, <<>>, c.ctr), LAMBDA t :
    enqueueAll([u EXCEPT !.ctr = t.ctr],
               <<Step("insert", "traverse", value, <<>>),
                 Step("insert", "attach", value, TraceOf(t.path)),
                 Step("insert", "check", value, RotateTrace(t.path))>>
               \o RotateSteps(t.path, "insert", value)
               \o <<Step("insert", "finalize", value, <<>>)>>)))

\* Variant of deleteFlow: without the not-found guard.
deleteFlow_unguarded(u, value) ==
  Bind(delete(u, value), LAMBDA u0 :
    enqueueAll(u0,
               <<Step("delete", "traverse", value, <<>>),
                 Step("delete", "remove", value, <<>>),
                 Step("delete", "check", value, RotateTrace(u0.path))>>
               \o RotateSteps(u0.path, "delete", value)
               \o <<Step("delete", "finalize", value, <<>>)>>))

deleteFlow(u, value) ==
  IF find(u.root, value) = Null THEN u
  ELSE Bind(delete(u, value), LAMBDA u0 :
         enqueueAll(u0,
                    <<Step("delete", "traverse", value, <<>>),
                      Step("delete", "remove", value, <<>>),
                      Step("delete", "check", value, RotateTrace(u0.path))>>
                    \o RotateSteps(u0.path, "delete", value)
                    \o <<Step("delete", "finalize", value, <<>>)>>))

\* The page after its script has run: one snapshot of the empty tree.
UIInit ==
  /\ root = Null
  /\ nodeIdCounter = 0
  /\ path = <<>>
  /\ op = [type |-> "none", value |-> 0]
  /\ preRoot = Null
  /\ preCounter = 0
  /\ unwound = Null
  /\ calls = <<>>
  /\ S = {}
  /\ found = Null
  /\ animQueue = <<>>
  /\ playing = FALSE
  /\ active = <<>>
  /\ started = <<>>
  /\ stepCounter = 0
  /\ timeline = <<serialize(Null)>>
  /\ timelineIndex = 0
  /\ captured = <<Null>>
  /\ animated = <<>>
  /\ deletedIds = {}
  /\ navigated = FALSE
  /\ flowCount = 0
  /\ navCount = 0
  /\ lastCheck = [flow |-> "none", rotations |-> 0, unbalanced |-> <<>>]

InsertFlowCall(value, limit) ==
  /\ flowCount < limit
  /\ \E cur \in {Cur} : \E u \in {insertFlow(cur, value)} : Install(u)
  /\ S' = S \cup {value}
  /\ flowCount' = flowCount + 1
  /\ UNCHANGED <<found, navigated, navCount>>

InsertFlow(value) == InsertFlowCall(value, MaxFlows)

DeleteFlowCall(value, limit) ==
  /\ flowCount < limit
  /\ \E cur \in {Cur} : \E u \in {deleteFlow(cur, value)} : Install(u)
  /\ S' = S \ {value}
  /\ flowCount' = flowCount + 1
  /\ UNCHANGED <<found, navigated, navCount>>

DeleteFlow(value) == DeleteFlowCall(value, MaxFlows)

Settle(ok) ==
  /\ \E i \in 1..Len(active) : \E cur \in {Cur} : \E u \in {Resume(cur, i, ok)} : Install(u)
  /\ UNCHANGED <<S, found, navigated, flowCount, navCount>>

StepBack ==
  /\ navCount < MaxNavs
  /\ timelineIndex > 0
  /\ \E cur \in {Cur} :
     \E u \in {renderSnapshot([cur EXCEPT !.timelineIndex = @ - 1], timelineIndex - 1)} :
       Install(u)
  /\ navigated' = TRUE
  /\ navCount' = navCount + 1
  /\ UNCHANGED <<S, found, flowCount>>

StepFwd ==
  /\ navCount < MaxNavs
  /\ timelineIndex < Len(timeline) - 1
  /\ \E cur \in {Cur} :
     \E u \in {renderSnapshot([cur EXCEPT !.timelineIndex = @ + 1], timelineIndex + 1)} :
       Install(u)
  /\ navigated' = TRUE
  /\ navCount' = navCount + 1
  /\ UNCHANGED <<S, found, flowCount>>

UINext ==
  \/ \E value \in UIValues : InsertFlow(value)
  \/ \E value \in UIValues : DeleteFlow(value)
  \/ \E ok \in BOOLEAN : Settle(ok)
  \/ StepBack
  \/ StepFwd

UISpec == UIInit /\ [][UINext]_vars

\* The page used patiently: the next Insert / Delete click comes when the
\* queue has drained, and the timeline buttons are left alone.
MaxPatientFlows == 3

PatientInsertFlow(value) ==
  animQueue = <<>> /\ active = <<>> /\ InsertFlowCall(value, MaxPatientFlows)

PatientDeleteFlow(value) ==
  animQueue = <<>> /\ active = <<>> /\ DeleteFlowCall(value, MaxPatientFlows)

PatientNext ==
  \/ \E value \in UIValues : PatientInsertFlow(value)
  \/ \E value \in UIValues : PatientDeleteFlow(value)
  \/ \E ok \in BOOLEAN : Settle(ok)

PatientSpec == UIInit /\ [][PatientNext]_vars

\* What a Settle step does to `active`: the settled step leaves, and the
\* runner either starts a step of the queue or stops. Under UISpec no other
\* step changes `active` while a step is started.
TimerFires ==
  /\ active # <<>>
  /\ active' \in {<<>>} \cup {<<animQueue[i]>> : i \in 1..Len(animQueue)}

\* Timers fire: a started step settles.
UIFairSpec == UISpec /\ WF_active(TimerFires)

\* ---------------------------------------------------------------------------
\* Ids
\* ---------------------------------------------------------------------------

RECURSIVE NodeCount(_)
NodeCount(node) ==
  IF node = Null THEN 0 ELSE 1 + NodeCount(node.left) + NodeCount(node.right)

\* The ids of the nodes on the way from the root of a tree, position by position.
RECURSIVE IdList(_)
IdList(node) ==
  IF node = Null THEN <<>>
  ELSE IdList(node.left) \o <<node.id>> \o IdList(node.right)

NoRepeat(seq) == \A i, j \in 1..Len(seq) : seq[i] = seq[j] => i = j

\* The ids of the nodes that the last engine call allocated: the node of a
\* create event, the `with` node of a replace event.
AllocatedNow ==
  {path[i].node.id : i \in {j \in 1..Len(path) : path[j].type = "create"}}
  \cup {path[i].with.id : i \in {j \in 1..Len(path) : path[j].type = "replace"}}

AnimatedCreated ==
  {animated[i].id : i \in {j \in 1..Len(animated) : animated[j].type = "create"}}

C16_SnapshotRoundTrip ==
  op.type = "render" =>
    /\ op.value + 1 \in 1..Len(timeline)
    /\ serialize(root) = timeline[op.value + 1]
    /\ root = captured[op.value + 1]
    /\ \A n \in Nodes(root) :
         /\ n.height = TrueHeight(n)
         /\ n.balance = TrueHeight(n.left) - TrueHeight(n.right)

\* A snapshot of a two-node tree has been restored.
C16_Witness ==
  /\ op.type = "render"
  /\ NodeCount(root) = 2
  /\ root.height = 2

\* ---------------------------------------------------------------------------
\* Flows against the queue
\* ---------------------------------------------------------------------------

\* A trace without its ids: event types, node / pivot values, rotation kinds.
Describe(t) ==
  [i \in 1..Len(t) |-> [type |-> t[i].type, value |-> t[i].value, kind |-> t[i].kind]]

\* C17: the trace an insertFlow(v) call animates (from the clone taken at call
\* time) has the same event types, node / pivot values and rotation kinds as
\* the trace of the avl.insert(v) its attach step runs on the live tree,
\* whatever flows and step-back / step-forward clicks come in between.
C17_AnimatedDescribesApplied ==
  op.type = "insert" => Describe(animated) = Describe(TraceOf(path))

Drained == animQueue = <<>> /\ active = <<>> /\ ~playing

\* C18: for insertFlow / deleteFlow calls issued while earlier steps may still
\* be queued, once the queue has drained the values of the live tree are the
\* set S obtained by applying the same inserts and deletes one after another
\* in the order of the calls.
C18_DrainedEqualsSequential ==
  (Drained /\ ~navigated) => ValuesOf(root) = S

\* ---------------------------------------------------------------------------
\* The animation queue
\* ---------------------------------------------------------------------------

\* Step ids are given in the order of the enqueue calls.
QueuedIds == [i \in 1..Len(animQueue) |-> animQueue[i].id]

\* C19: at most one enqueued function is started and not settled, and so at
\* most one runQueue loop awaits; the steps start in the order they were
\* enqueued, none skipped; whatever the outcome of a step (settled or
\* thrown), the steps behind it are still taken up by the runner.
C19_Sequential ==
  /\ Len(active) <= 1
  /\ \A i \in 1..Len(started) : started[i] = i
  /\ QueuedIds = [i \in 1..Len(animQueue) |-> Len(started) + i]
  /\ Len(started) + Len(animQueue) = stepCounter
  /\ \A i \in 1..Len(active) : active[i].id = started[Len(started)]
  /\ animQueue # <<>> => (playing /\ active # <<>>)

\* Two insert flows ran, the finalize step of the first one threw (its
\* snapshot is missing from the timeline), and the steps of the second one
\* were started and settled all the same.
C19_Witness ==
  /\ Drained
  /\ ~navigated
  /\ flowCount = 2
  /\ stepCounter = 8
  /\ Len(started) = 8
  /\ Len(timeline) = 2
  /\ NodeCount(captured[2]) = 2

\* Every function passed to enqueue so far has been started and has settled.
AllExecuted ==
  /\ active = <<>>
  /\ {started[i] : i \in 1..Len(started)} = 1..stepCounter

\* C20: when every started step settles, each function passed to enqueue is
\* executed, and exactly once (the calls being finitely many, again and again
\* all of them have been executed); with an empty queue and no step executing
\* `playing` is false; no step waits in animQueue without a runner.
C20_EveryStepRuns ==
  /\ [](NoRepeat(started))
  /\ []((animQueue = <<>> /\ active = <<>>) => ~playing)
  /\ [](animQueue # <<>> => active # <<>>)
  /\ []<>AllExecuted

\* Two flows were enqueued, the second behind the first, and every step of
\* both has run: both snapshots are in the timeline.
C20_Witness ==
  /\ Drained
  /\ flowCount = 2
  /\ stepCounter > 4
  /\ Len(started) = stepCounter
  /\ Len(timeline) = 3

\* ---------------------------------------------------------------------------
\* Rotations
\* ---------------------------------------------------------------------------

\* The nodes of a subtree in in-order, each as its id and its value.
RECURSIVE IdValueList(_)
IdValueList(node) ==
  IF node = Null THEN <<>>
  ELSE IdValueList(node.left) \o <<<<node.id, node.value>>>> \o IdValueList(node.right)

\* The stored height and balance of a node are those computed from its children.
FieldsFromChildren(n) ==
  /\ n.height = 1 + Max(_height(n.left), _height(n.right))
  /\ n.height = TrueHeight(n)
  /\ n.balance = TrueHeight(n.left) - TrueHeight(n.right)

\* The applications of _rebalance of the last call that rotated.
Rotations == {c \in 1..Len(calls) : calls[c].events # <<>>}

\* C21: a rotation, single (LL, RR) or double (LR, RL), keeps the in-order
\* sequence of values of the rotated subtree and its nodes' ids (none dropped,
\* duplicated or re-identified), and leaves the old and the new subtree root,
\* and the middle node of a double rotation, with the height and balance
\* computed from their children.
C21_RotationFrame ==
  \A c \in Rotations :
    LET before == calls[c].node
        after  == calls[c].result
    IN  /\ inOrderTraversal(after) = inOrderTraversal(before)
        /\ IdValueList(after) = IdValueList(before)
        /\ NoRepeat(IdList(after))
        /\ FieldsFromChildren(after)
        /\ FieldsFromChildren(NodeById(after, before.id))
        /\ \A n \in Nodes(after) : FieldsFromChildren(n)

\* A double rotation (a left rotation of the child, then a right rotation of
\* the pivot) has turned a chain of three nodes into a root with two children.
C21_Witness ==
  \E c \in Rotations :
    /\ calls[c].events[1].kind = "LR"
    /\ NodeCount(calls[c].result) = 3
    /\ calls[c].result.left # Null
    /\ calls[c].result.right # Null

\* ---------------------------------------------------------------------------
\* Incremental bookkeeping
\* ---------------------------------------------------------------------------

\* C22: when _insert / _delete return to insert / delete, every node of the
\* returned tree already stores 1 + max of its children's heights and
\* height(left) - height(right); the updateHeightsAndBalances pass that
\* follows changes no field of any node.
C22_RecomputeChangesNothing ==
  op.type \in {"insert", "delete"} =>
    /\ \A n \in Nodes(unwound) :
         /\ n.height = 1 + Max(_height(n.left), _height(n.right))
         /\ n.balance = _height(n.left) - _height(n.right)
         /\ n.height = TrueHeight(n)
    /\ root = unwound

\* A delete that replaced a node with two children and rotated on the way up.
C22_Witness ==
  /\ op.type = "delete"
  /\ EventsOf("replace") # {}
  /\ EventsOf("rotate") # {}
  /\ unwound # Null
  /\ root = unwound

\* ---------------------------------------------------------------------------
\* The balance-check step
\* ---------------------------------------------------------------------------

\* C23: when the trace of an insertFlow / deleteFlow has a rotate event, the
\* flow's balance-check step (started after the value was attached / removed,
\* before the rotation steps) finds an unbalanced node in the live tree:
\* findUnbalancedNodes(avl.root) is not empty.
C23_CheckFindsUnbalanced ==
  lastCheck.rotations > 0 => lastCheck.unbalanced # <<>>

\* ---------------------------------------------------------------------------
\* Deep trees: calls on a tree of height 5
\* ---------------------------------------------------------------------------

\* The keys of a smallest tree of height 5, level by level: inserted in this
\* order into the empty tree they are placed without a rotation.
DeepKeys == <<8, 5, 10, 3, 6, 9, 11, 2, 4, 7, 12, 1>>

\* Keys offered to insert and delete on the deep tree are 1..MaxDeepValue.
MaxDeepValue == 13
\* So many insert / delete calls are made on the deep tree.
MaxDeepCalls == 2

\* avl.insert(key) for each key in turn.
RECURSIVE InsertAll(_, _, _)
InsertAll(tree, ctr, keys) ==
  IF keys = <<>> THEN [node |-> tree, ctr |-> ctr]
  ELSE LET r == _insert(tree, Head(keys), <<>>, ctr)
       IN  InsertAll(updateHeightsAndBalances(r.node), r.ctr, Tail(keys))

DeepInit ==
  /\ root = InsertAll(Null, 0, DeepKeys).node
  /\ nodeIdCounter = InsertAll(Null, 0, DeepKeys).ctr
  /\ path = <<>>
  /\ op = [type |-> "none", value |-> 0]
  /\ preRoot = Null
  /\ preCounter = 0
  /\ unwound = Null
  /\ calls = <<>>
  /\ S = {DeepKeys[i] : i \in 1..Len(DeepKeys)}
  /\ found = Null
  /\ animQueue = <<>>
  /\ playing = FALSE
  /\ active = <<>>
  /\ started = <<>>
  /\ stepCounter = 0
  /\ timeline = <<>>
  /\ timelineIndex = -1
  /\ captured = <<>>
  /\ animated = <<>>
  /\ deletedIds = {}
  /\ navigated = FALSE
  /\ flowCount = 0
  /\ navCount = 0
  /\ lastCheck = [flow |-> "none", rotations |-> 0, unbalanced |-> <<>>]

\* avl.insert(value) / avl.delete(value) on the deep tree; flowCount counts
\* the calls.
DeepInsert(value) ==
  /\ flowCount < MaxDeepCalls
  /\ \E cur \in {Cur} : \E u \in {insert(cur, value)} : Install(u)
  /\ S' = S \cup {value}
  /\ flowCount' = flowCount + 1
  /\ UNCHANGED <<found, navigated, navCount>>

DeepDelete(value) ==
  /\ flowCount < MaxDeepCalls
  /\ \E cur \in {Cur} : \E u \in {delete(cur, value)} : Install(u)
  /\ S' = S \ {value}
  /\ flowCount' = flowCount + 1
  /\ UNCHANGED <<found, navigated, navCount>>

DeepNext ==
  \/ \E value \in 1..MaxDeepValue : DeepInsert(value)
  \/ \E value \in 1..MaxDeepValue : DeepDelete(value)

DeepSpec == DeepInit /\ [][DeepNext]_vars

\* C24: an insert call appends at most one rotate event, and once it has
\* rotated no ancestor of the pivot is rotated or left out of balance; a
\* delete call may append several (DeleteRotatesTwice is reachable).
C24_InsertRotatesOnce ==
  op.type = "insert" =>
    /\ Cardinality(EventsOf("rotate")) <= 1
    /\ \A c, d \in 1..Len(calls) :
         (c < d /\ calls[c].events # <<>>) =>
           /\ calls[d].events = <<>>
           /\ Abs(calls[d].node.balance) <= 1
           /\ calls[d].result = calls[d].node

\* An insert call that rotated below two ancestors of the pivot.
C24_Witness ==
  /\ op.type = "insert"
  /\ \E c \in Rotations : c + 2 <= Len(calls)

\* A delete call whose trace holds two rotate events: one below the root,
\* then one at the root.
DeleteRotatesTwice ==
  /\ op.type = "delete"
  /\ Cardinality(EventsOf("rotate")) >= 2
  /\ \E c, d \in Rotations : c < d /\ calls[d].node.id = preRoot.id

\* C25: at every rotate event of an insert or delete the pivot's balance is
\* exactly +2 or -2, and it is the true difference of its subtrees' heights;
\* the subtree root that this _rebalance returns has |balance| <= 1, again
\* the true difference.
C25_PivotIsTwoOff ==
  /\ \A i \in EventsOf("rotate") :
        /\ path[i].pivot.balance \in {-2, 2}
        /\ path[i].pivot.balance =
             TrueHeight(path[i].pivot.left) - TrueHeight(path[i].pivot.right)
  /\ \A c \in Rotations :
        /\ calls[c].events[1].pivot = calls[c].node
        /\ calls[c].node.balance \in {-2, 2}
        /\ Abs(calls[c].result.balance) <= 1
        /\ calls[c].result.balance =
             TrueHeight(calls[c].result.left) - TrueHeight(calls[c].result.right)

\* A delete whose single rotation left the returned subtree root one off
\* balance (the pivot's heavy child was itself balanced).
C25_Witness ==
  /\ op.type = "delete"
  /\ \E c \in Rotations :
        /\ calls[c].events[1].kind \in {"LL", "RR"}
        /\ Abs(calls[c].node.balance) = 2
        /\ Abs(calls[c].result.balance) = 1

\* ---------------------------------------------------------------------------
\* deleteFlow of an absent value
\* ---------------------------------------------------------------------------

\* C26: deleteFlow(v) called when avl.find(v) is null changes nothing: the
\* live tree and its id counter, animQueue, playing, the running step, the
\* timeline and timelineIndex stay as they were, no step is started and no
\* snapshot is taken.
C26_AbsentDeleteIsNoOp ==
  [][\A value \in UIValues :
       (find(root, value) = Null /\ DeleteFlow(value)) =>
         UNCHANGED <<root, nodeIdCounter, path, animQueue, playing, active,
                     started, stepCounter, timeline, timelineIndex, captured,
                     animated, deletedIds, lastCheck>>]_vars

\* Two flows were called on the page, the tree is not empty and everything has
\* drained, yet only the four steps of one insertFlow were ever started: the
\* other call was a deleteFlow of a value the tree did not hold.
C26_Witness ==
  /\ flowCount = 2
  /\ root # Null
  /\ Len(started) = 4
  /\ animQueue = <<>>
  /\ active = <<>>
  /\ ~playing

\* ---------------------------------------------------------------------------
\* The timeline
\* ---------------------------------------------------------------------------

\* A serialized tree is a balanced binary search tree.
BalancedSearchTree(t) ==
  \A n \in Nodes(t) :
    /\ Abs(TrueHeight(n.left) - TrueHeight(n.right)) <= 1
    /\ \A v \in ValuesOf(n.left) : v < n.value
    /\ \A v \in ValuesOf(n.right) : v > n.value

TimelineInRange ==
  /\ timeline # <<>>
  /\ timelineIndex \in 0..(Len(timeline) - 1)
  /\ \A i \in 1..Len(timeline) : BalancedSearchTree(timeline[i])

\* The three ways a step treats the timeline: it leaves timeline and
\* timelineIndex alone; step-back / step-forward move the index by one; a
\* snapshot keeps the entries up to timelineIndex, appends the serialized
\* live tree and puts timelineIndex on that last entry.
TimelineStep ==
  \/ UNCHANGED <<timeline, timelineIndex>>
  \/ /\ StepBack \/ StepFwd
     /\ timeline' = timeline
     /\ Abs(timelineIndex' - timelineIndex) = 1
     /\ timelineIndex' \in 0..(Len(timeline) - 1)
  \/ /\ \E ok \in BOOLEAN : Settle(ok)
     /\ timeline' = Append(SubSeq(timeline, 1, timelineIndex + 1), serialize(root'))
     /\ timelineIndex' = Len(timeline') - 1

\* C27: once the page is initialized the timeline is never empty,
\* 0 <= timelineIndex <= Len(timeline) - 1 and every entry is a balanced
\* binary search tree; step-back and step-forward keep the index in that
\* range, and a snapshot discards the entries after timelineIndex, appends
\* the new entry and leaves timelineIndex on it.
C27_Timeline == []TimelineInRange /\ [][TimelineStep]_vars

\* Two different values were inserted, nothing was deleted and every step
\* has run, the second insert being the last thing to change the tree; yet
\* the timeline holds the empty tree and the tree of the second value alone:
\* the snapshot of the first insert was discarded by the snapshot taken
\* after a step back.
C27_Witness ==
  /\ Cardinality(S) = 2
  /\ deletedIds = {}
  /\ animQueue = <<>>
  /\ active = <<>>
  /\ op.type = "insert"
  /\ Len(timeline) = 2
  /\ timelineIndex = 1
  /\ Cardinality(Nodes(timeline[2])) = 1
  /\ timeline[2].value = op.value

====
